---- MODULE Spec2Model ----
(***************************************************************************)
(* Model of the dto mapper (package dto): the Mapper with its two function *)
(* registries, the struct field resolver, the composite transformers and   *)
(* the recursive dispatcher mapValue.                                      *)
(*                                                                         *)
(* The repository holds two variants of the engine.  src/dto.go guards     *)
(* direct assignment with HasCustomFuncs/isCompositeKind and knows no      *)
(* struct tag; src/unnamed/part_000 has no such guard and honours the      *)
(* `dto:"ignore"` tag.  The variable `engine` says which one runs.         *)
(*                                                                         *)
(* Memory is a heap of cells.  A reflect.Value is a reference into a cell  *)
(* (address, path, type), so that writes through a destination pointer and *)
(* reads through a source pointer see the same memory, as in Go.  Structs, *)
(* slices and maps are stored inline in their cell.                        *)
(***************************************************************************)
EXTENDS Integers, Sequences, FiniteSets, TLC

VARIABLES
    engine,   \* which variant of the engine is linked in
    m,        \* the Mapper: [convFunc, postFunc]
    pc,       \* "idle" between calls, "done" when a Map call has returned
    call,     \* arguments of the last Map call (pre-state of the heap included)
    res,      \* outcome of the last Map call: [heap, log, err]
    runs,     \* the Map calls of concurrent callers, one record per caller
    regs      \* the registration calls made so far, where their history is kept

vars == <<engine, m, pc, call, res, runs, regs>>

----------------------------------------------------------------------------
(* Bounds of the model *)

MaxPrim == 1
MaxLen == 2
MaxReg == 2
MaxDepth == 6

----------------------------------------------------------------------------
(* Type descriptors (reflect.Type restricted to a finite universe) *)

Prim(k) == [kind |-> k, elem |-> "", key |-> "", fields |-> <<>>]
PtrTo(t) == [kind |-> "ptr", elem |-> t, key |-> "", fields |-> <<>>]
SliceOf(t) == [kind |-> "slice", elem |-> t, key |-> "", fields |-> <<>>]
MapOf(k, t) == [kind |-> "map", elem |-> t, key |-> k, fields |-> <<>>]
StructOf(fs) == [kind |-> "struct", elem |-> "", key |-> "", fields |-> fs]

Fld(n, t) == [name |-> n, type |-> t, anon |-> FALSE, ignore |-> FALSE]
Emb(t) == [name |-> t, type |-> t, anon |-> TRUE, ignore |-> FALSE]
IgnFld(n, t) == [name |-> n, type |-> t, anon |-> FALSE, ignore |-> TRUE]
IgnEmb(t) == [name |-> t, type |-> t, anon |-> TRUE, ignore |-> TRUE]

TypeTable ==
    [string |-> Prim("string"),
     int |-> Prim("int"),
     float32 |-> Prim("float32"),
     Product |-> StructOf(<<Fld("Name", "string"), Fld("Price", "float32")>>),
     ProductDTO |-> StructOf(<<Fld("Name", "string"), Fld("Price", "int"),
                               Fld("Extra", "int")>>),
     ProductRef |-> StructOf(<<Emb("Product"), Fld("Link", "string")>>),
     Shadow |-> StructOf(<<Fld("Name", "string"), Emb("Product")>>),
     NameAndLink |-> StructOf(<<Fld("Name", "string"), Fld("Link", "string")>>),
     Hidden |-> StructOf(<<Fld("Token", "string")>>),
     Order |-> StructOf(<<Fld("Id", "string"), IgnFld("Secret", "string"),
                          IgnEmb("Hidden")>>),
     OrderDto |-> StructOf(<<Fld("Id", "string"), Fld("Secret", "string"),
                             Fld("Token", "string")>>),
     PtrProduct |-> PtrTo("Product"),
     PtrProductDTO |-> PtrTo("ProductDTO"),
     Holder |-> StructOf(<<Fld("Prod", "PtrProduct")>>),
     HolderV |-> StructOf(<<Fld("Prod", "Product")>>),
     HolderDTO |-> StructOf(<<Fld("Prod", "PtrProductDTO")>>),
     HolderDTOV |-> StructOf(<<Fld("Prod", "ProductDTO")>>),
     Products |-> SliceOf("Product"),
     ProductDTOs |-> SliceOf("ProductDTO"),
     Strings |-> SliceOf("string"),
     Ints |-> SliceOf("int"),
     ByTag |-> MapOf("string", "Product"),
     ByTagDTO |-> MapOf("string", "ProductDTO"),
     Tagged |-> MapOf("string", "Products"),
     ProductDTOLists |-> SliceOf("ProductDTOs"),
     ByPrice |-> MapOf("float32", "Product"),
     ByPriceDTO |-> MapOf("int", "ProductDTO"),
     ByCount |-> MapOf("string", "int"),
     Node |-> StructOf(<<Fld("Val", "int"), Fld("Next", "PtrNode")>>),
     PtrNode |-> PtrTo("Node"),
     NodeDTO |-> StructOf(<<Fld("Val", "int"), Fld("Next", "PtrNodeDTO")>>),
     PtrNodeDTO |-> PtrTo("NodeDTO"),
     nilRecvT |-> StructOf(<<>>)]

TypeNames == DOMAIN TypeTable

Kind(t) == TypeTable[t].kind
Elem(t) == TypeTable[t].elem
Key(t) == TypeTable[t].key
Fields(t) == TypeTable[t].fields

----------------------------------------------------------------------------
(* reflect: kinds, assignability, convertibility, zero values *)

nilRecvRfType == "nilRecvT"

isCompositeKind(k) == k \in {"struct", "slice", "map"}

\* Every type of the universe is a distinct named type: a type is assignable
\* to another exactly when they are the same type.
AssignableTo(from, to) == from = to

\* Struct types convert when their fields agree up to the tags.
SameUnderlying(a, b) ==
    /\ Kind(a) = "struct" /\ Kind(b) = "struct"
    /\ Len(Fields(a)) = Len(Fields(b))
    /\ \A i \in 1..Len(Fields(a)) :
          /\ Fields(a)[i].name = Fields(b)[i].name
          /\ Fields(a)[i].type = Fields(b)[i].type
          /\ Fields(a)[i].anon = Fields(b)[i].anon

ConvertibleTo(from, to) ==
    \/ from = to
    \/ Kind(from) \in {"int", "float32"} /\ Kind(to) \in {"int", "float32"}
    \/ Kind(from) = "int" /\ Kind(to) = "string"
    \/ SameUnderlying(from, to)
    \/ /\ Kind(from) = "ptr" /\ Kind(to) = "ptr"
       /\ SameUnderlying(Elem(from), Elem(to))

\* Payloads: an int is itself; a float32 payload n stands for n/2; a string
\* payload is the code of the string, 100+r being the one-rune string of rune r.
Convert(v, from, to) ==
    CASE Kind(from) = "float32" /\ Kind(to) = "int" -> v \div 2
      [] Kind(from) = "int" /\ Kind(to) = "float32" -> 2 * v
      [] Kind(from) = "int" /\ Kind(to) = "string" -> 100 + v
      [] OTHER -> v

RECURSIVE ZeroValue(_)
RECURSIVE ZeroFields(_, _)
ZeroFields(fs, i) ==
    IF i > Len(fs) THEN << >>
    ELSE (fs[i].name :> ZeroValue(fs[i].type)) @@ ZeroFields(fs, i + 1)

ZeroValue(t) ==
    CASE Kind(t) = "struct" -> ZeroFields(Fields(t), 1)
      [] Kind(t) \in {"slice", "map"} -> << >>
      [] OTHER -> 0

----------------------------------------------------------------------------
(* Memory: cells, references (reflect.Value) and paths *)

Sel(n, i) == [n |-> n, i |-> i]
Rv(a, p, t) == [a |-> a, p |-> p, t |-> t]

RECURSIVE GetPath(_, _, _)
GetPath(v, p, k) ==
    IF k > Len(p) THEN v
    ELSE GetPath(IF p[k].n # "" THEN v[p[k].n] ELSE v[p[k].i], p, k + 1)

RECURSIVE SetPath(_, _, _, _)
SetPath(v, p, k, x) ==
    IF k > Len(p) THEN x
    ELSE IF p[k].n # ""
         THEN [v EXCEPT ![p[k].n] = SetPath(@, p, k + 1, x)]
         ELSE [v EXCEPT ![p[k].i] = SetPath(@, p, k + 1, x)]

Get(heap, rv) == GetPath(heap[rv.a], rv.p, 1)
Set(heap, rv, x) == [heap EXCEPT ![rv.a] = SetPath(@, rv.p, 1, x)]

\* rv.Field(name), rv.Index(i), rv.Elem() of a non-nil pointer
FieldRv(rv, f) == Rv(rv.a, Append(rv.p, Sel(f.name, 0)), f.type)
IndexRv(rv, i) == Rv(rv.a, Append(rv.p, Sel("", i)), Elem(rv.t))
ElemRv(heap, rv) == Rv(Get(heap, rv), << >>, Elem(rv.t))

\* reflect.New(t): a fresh zeroed cell; its address is the new length.
New(heap, t) == Append(heap, ZeroValue(t))

----------------------------------------------------------------------------
(* Errors *)

NoErr == [kind |-> "nil", to |-> "", from |-> "", id |-> ""]
UserErr(id) == [kind |-> "user", to |-> "", from |-> "", id |-> id]
\* Faulty variant: the two types of the error are exchanged.
ErrNoValidMappingSwapped(to, from) ==
    [kind |-> "NoValidMapping", to |-> from, from |-> to, id |-> ""]

ErrNoValidMapping(to, from) == [kind |-> "NoValidMapping", to |-> to, from |-> from, id |-> ""]
\* The Go runtime's fatal stack exhaustion, reached when the recursion passes MaxDepth.
StackOverflow == [kind |-> "fatal", to |-> "", from |-> "", id |-> "stack overflow"]

----------------------------------------------------------------------------
(* The callables a caller may register.  in/out are rt.In(0)/rt.Out(0) of a *)
(* conversion function; to/recv are ft.In(0).Elem() and ft.In(1) (or the    *)
(* no-receiver marker) of an inspection function.                           *)

ConvCatalog ==
    { [id |-> "called", in |-> "string", out |-> "string"],
      [id |-> "round", in |-> "float32", out |-> "int"],
      [id |-> "toDTO", in |-> "Product", out |-> "ProductDTO"],
      [id |-> "ptrDTO", in |-> "PtrProduct", out |-> "ProductDTO"] }

InspectCatalog ==
    { [id |-> "expensive", to |-> "ProductDTO", recv |-> "Product"],
      [id |-> "bump", to |-> "ProductDTO", recv |-> nilRecvRfType],
      [id |-> "failDTO", to |-> "ProductDTO", recv |-> nilRecvRfType] }

\* reflect.ValueOf(f).Call(args) of a conversion function: (value, error)
ConvCall(id, heap, fromRv) ==
    LET v == Get(heap, fromRv) IN
    CASE id = "called" -> [val |-> 0, err |-> UserErr("Called!")]
      [] id = "round" -> [val |-> (v + 1) \div 2, err |-> NoErr]
      [] id = "toDTO" ->
            [val |-> [Name |-> v.Name, Price |-> 99, Extra |-> 0], err |-> NoErr]
      [] id = "ptrDTO" ->
            [val |-> [Name |-> IF v = 0 THEN 0 ELSE heap[v].Name,
                      Price |-> 77, Extra |-> 0],
             err |-> NoErr]
      [] id = "nonEmpty" ->
            IF v = 0 THEN [val |-> 0, err |-> UserErr("Empty!")]
            ELSE [val |-> v, err |-> NoErr]

\* reflect.ValueOf(f).Call(args) of an inspection function: it may write
\* through its first argument, the address of the destination.
InspectCall(id, heap, toRv, fromRv) ==
    LET extra == Rv(toRv.a, Append(toRv.p, Sel("Extra", 0)), "int") IN
    CASE id = "expensive" ->
            [heap |-> Set(heap, extra, Get(heap, fromRv).Price), err |-> NoErr]
      [] id = "bump" ->
            [heap |-> Set(heap, extra, Get(heap, extra) + 1), err |-> NoErr]
      [] id = "failDTO" -> [heap |-> heap, err |-> UserErr("Test error")]

----------------------------------------------------------------------------
(* The trace of one Map call: one event per step of the dispatcher *)

Event(ev, toRv, fromT, f, err, d) ==
    [ev |-> ev, a |-> toRv.a, p |-> toRv.p, to |-> toRv.t, from |-> fromT,
     f |-> f, err |-> err, d |-> d]

Log(st, ev, toRv, fromT, f, err, d) ==
    [st EXCEPT !.log = Append(@, Event(ev, toRv, fromT, f, err, d))]

\* Sequencing: evaluate x once, then continue with its value.
Then(x, F(_)) == CHOOSE y \in { F(r) : r \in {x} } : TRUE

----------------------------------------------------------------------------
(* Iteration order of Go maps.  `range` over a map visits the entries in an *)
(* order the runtime picks; a call sees one of two orders, a fixed one or   *)
(* its reverse.                                                             *)

RECURSIVE SetToSeq(_)
SetToSeq(S) ==
    IF S = {} THEN << >>
    ELSE LET x == CHOOSE y \in S : TRUE IN <<x>> \o SetToSeq(S \ {x})

Reverse(s) == [i \in 1..Len(s) |-> s[Len(s) + 1 - i]]

Orders == {"fwd", "rev"}

RangeOrder(S, ord) == IF ord = "fwd" THEN SetToSeq(S) ELSE Reverse(SetToSeq(S))

----------------------------------------------------------------------------
(* Struct field resolver *)

\* src/dto.go: every field is visited, anonymous ones are flattened.
RECURSIVE collectStructFields(_, _, _, _)
\* Faulty variant: of two fields with one name the first one visited is kept.
collectStructFieldsFirstWins(rv, fs, i, fields) ==
    IF i > Len(fs) THEN fields
    ELSE IF fs[i].anon
         THEN collectStructFields(rv, fs, i + 1,
                  collectStructFields(FieldRv(rv, fs[i]), Fields(fs[i].type), 1, fields))
         ELSE collectStructFields(rv, fs, i + 1,
                  fields @@ (fs[i].name :> FieldRv(rv, fs[i])))

collectStructFields(rv, fs, i, fields) ==
    IF i > Len(fs) THEN fields
    ELSE IF fs[i].anon
         THEN collectStructFields(rv, fs, i + 1,
                  collectStructFields(FieldRv(rv, fs[i]), Fields(fs[i].type), 1, fields))
         ELSE collectStructFields(rv, fs, i + 1,
                  (fs[i].name :> FieldRv(rv, fs[i])) @@ fields)

\* src/unnamed/part_000: a field tagged dto:"ignore" is skipped first.
RECURSIVE collectStructFieldsTagged(_, _, _, _)
collectStructFieldsTagged(rv, fs, i, fields) ==
    IF i > Len(fs) THEN fields
    ELSE IF fs[i].ignore
         THEN collectStructFieldsTagged(rv, fs, i + 1, fields)
         ELSE IF fs[i].anon
              THEN collectStructFieldsTagged(rv, fs, i + 1,
                       collectStructFieldsTagged(FieldRv(rv, fs[i]),
                                                 Fields(fs[i].type), 1, fields))
              ELSE collectStructFieldsTagged(rv, fs, i + 1,
                       (fs[i].name :> FieldRv(rv, fs[i])) @@ fields)

\* The name -> field map built for one struct value by the engine in use.
FieldMap(eng, rv) ==
    IF eng = "dto"
    THEN collectStructFields(rv, Fields(rv.t), 1, << >>)
    ELSE collectStructFieldsTagged(rv, Fields(rv.t), 1, << >>)

----------------------------------------------------------------------------
(* Function registry: lookups *)

HasCustomFuncs(mp) ==
    Cardinality(DOMAIN mp.convFunc) + Cardinality(DOMAIN mp.postFunc) > 0

\* Faulty variant: the receiver-less functions run before the typed ones.
InspectFuncsForBareFirst(mp, toT, fromT) ==
    IF toT \notin DOMAIN mp.postFunc THEN << >>
    ELSE LET toMap == mp.postFunc[toT]
             of(recvType) == IF recvType \in DOMAIN toMap THEN toMap[recvType] ELSE << >>
         IN of(nilRecvRfType) \o of(fromT)

\* The functions runInspectFuncs calls for a (to, from) pair, in call order.
InspectFuncsFor(mp, toT, fromT) ==
    IF toT \notin DOMAIN mp.postFunc THEN << >>
    ELSE LET toMap == mp.postFunc[toT]
             of(recvType) == IF recvType \in DOMAIN toMap THEN toMap[recvType] ELSE << >>
         IN of(fromT) \o of(nilRecvRfType)

RECURSIVE runInspectLoop(_, _, _, _, _, _)
runInspectLoop(funcs, i, toRv, fromRv, st, d) ==
    IF i > Len(funcs) THEN [st |-> st, err |-> NoErr]
    ELSE Then(InspectCall(funcs[i], st.heap, toRv, fromRv), LAMBDA r :
            Then(Log([st EXCEPT !.heap = r.heap], "inspect", toRv, fromRv.t,
                     funcs[i], r.err, d),
                 LAMBDA st1 : IF r.err # NoErr THEN [st |-> st1, err |-> r.err]
                              ELSE runInspectLoop(funcs, i + 1, toRv, fromRv, st1, d)))

runInspectFuncs(mp, toRv, fromRv, st, d) ==
    runInspectLoop(InspectFuncsFor(mp, toRv.t, fromRv.t), 1, toRv, fromRv, st, d)

\* The conversion function registered for (from, to), "" when there is none.
ConvFuncFor(mp, toT, fromT) ==
    IF fromT \notin DOMAIN mp.convFunc THEN ""
    ELSE IF toT \in DOMAIN mp.convFunc[fromT] THEN mp.convFunc[fromT][toT] ELSE ""

runConvFuncs(mp, toRv, fromRv, st, d) ==
    LET f == ConvFuncFor(mp, toRv.t, fromRv.t) IN
    IF f = "" THEN [converted |-> FALSE, st |-> st, err |-> NoErr]
    ELSE LET r == ConvCall(f, st.heap, fromRv) IN
         IF r.err # NoErr
         THEN [converted |-> TRUE, err |-> r.err,
               st |-> Log(st, "conv", toRv, fromRv.t, f, r.err, d)]
         ELSE [converted |-> TRUE, err |-> NoErr,
               st |-> Log([st EXCEPT !.heap = Set(@, toRv, r.val)],
                          "conv", toRv, fromRv.t, f, NoErr, d)]

----------------------------------------------------------------------------
(* The dispatcher and the composite transformers.  st = [heap, log, ord,    *)
(* eng] is threaded through; every operator returns [st, err].              *)

Ok(st) == [st |-> st, err |-> NoErr]

\* src/dto.go: with custom functions, a composite source is never assigned whole.
GuardedDirect(mp, fk) == ~HasCustomFuncs(mp) \/ ~isCompositeKind(fk)
\* src/unnamed/part_000: assignment and conversion are always tried.
UnguardedDirect(mp, fk) == TRUE
TriesDirect(eng, mp, fk) ==
    IF eng = "dto" THEN GuardedDirect(mp, fk) ELSE UnguardedDirect(mp, fk)

\* A copy of a map key or map value handed out by the iterator (mapIt.Key(),
\* mapIt.Value()), and the zeroed temporaries of mapMap: fresh cells.
TempRv(heap, t) == Rv(Len(heap) + 1, << >>, t)

ZeroSlice(t, n) == [i \in 1..n |-> ZeroValue(Elem(t))]

RECURSIVE mapValue(_, _, _, _, _)
RECURSIVE mapSliceLoop(_, _, _, _, _, _)
RECURSIVE mapMapLoop(_, _, _, _, _, _, _)
RECURSIVE mapStructsLoop(_, _, _, _, _, _, _)
RECURSIVE mapMapToSliceLoop(_, _, _, _, _, _, _)
RECURSIVE flattenLoop(_, _, _, _, _, _, _, _, _)

\* Faulty variant: the loop goes on after an element's error and reports it at the end.
mapSliceLoopKeepGoing(mp, toRv, fromRv, i, st, d) ==
    IF i > Len(Get(st.heap, fromRv)) THEN Ok(st)
    ELSE Then(mapValue(mp, IndexRv(toRv, i), IndexRv(fromRv, i), st, d + 1),
              LAMBDA r : Then(mapSliceLoop(mp, toRv, fromRv, i + 1, r.st, d),
                              LAMBDA r2 : IF r.err # NoErr
                                          THEN [st |-> r2.st, err |-> r.err]
                                          ELSE r2))

mapSliceLoop(mp, toRv, fromRv, i, st, d) ==
    IF i > Len(Get(st.heap, fromRv)) THEN Ok(st)
    ELSE Then(mapValue(mp, IndexRv(toRv, i), IndexRv(fromRv, i), st, d + 1),
              LAMBDA r : IF r.err # NoErr THEN r
                         ELSE mapSliceLoop(mp, toRv, fromRv, i + 1, r.st, d))

\* Faulty variant: a destination that is long enough is mapped into as it is.
mapSliceReuse(mp, toRv, fromRv, st, d) ==
    LET n == Len(Get(st.heap, fromRv))
    IN IF Len(Get(st.heap, toRv)) >= n
       THEN mapSliceLoop(mp, toRv, fromRv, 1, st, d)
       ELSE mapSliceLoop(mp, toRv, fromRv, 1,
                         [st EXCEPT !.heap = Set(@, toRv, ZeroSlice(toRv.t, n))], d)

\* Faulty variant: when an element fails the destination gets back the
\* value it held before.
mapSliceAtomic(mp, toRv, fromRv, st, d) ==
    LET n == Len(Get(st.heap, fromRv))
    IN Then(mapSliceLoop(mp, toRv, fromRv, 1,
                         [st EXCEPT !.heap = Set(@, toRv, ZeroSlice(toRv.t, n))], d),
            LAMBDA r : IF r.err = NoErr THEN r
                       ELSE [st |-> [r.st EXCEPT !.heap = Set(@, toRv, Get(st.heap, toRv))],
                             err |-> r.err])

mapSlice(mp, toRv, fromRv, st, d) ==
    LET n == Len(Get(st.heap, fromRv))
    IN mapSliceLoop(mp, toRv, fromRv, 1,
                    [st EXCEPT !.heap = Set(@, toRv, ZeroSlice(toRv.t, n))], d)

\* Faulty variant: the entry is inserted under the source key, not the mapped one.
mapMapEntryRawKey(mp, toRv, fromRv, key, st, d) ==
    LET a == Len(st.heap)
        toKey == Rv(a + 1, << >>, Key(toRv.t))
        toValue == Rv(a + 2, << >>, Elem(toRv.t))
        itKey == Rv(a + 3, << >>, Key(fromRv.t))
        itValue == Rv(a + 4, << >>, Elem(fromRv.t))
        h == st.heap \o <<ZeroValue(Key(toRv.t)), ZeroValue(Elem(toRv.t)),
                          key, Get(st.heap, fromRv)[key]>>
    IN Then(mapValue(mp, toKey, itKey, [st EXCEPT !.heap = h], d + 1),
            LAMBDA rk : IF rk.err # NoErr THEN rk
               ELSE Then(mapValue(mp, toValue, itValue, rk.st, d + 1),
                    LAMBDA rv : IF rv.err # NoErr THEN rv
                       ELSE LET old == Get(rv.st.heap, toRv)
                                new == [x \in DOMAIN old \cup {key} |->
                                           IF x = key THEN Get(rv.st.heap, toValue)
                                           ELSE old[x]]
                            IN Ok([rv.st EXCEPT !.heap = Set(@, toRv, new)])))

\* One entry of the source map: the temporaries toKey and toValue and the
\* iterator's copies of the key and the value take four fresh cells.
mapMapEntry(mp, toRv, fromRv, key, st, d) ==
    LET a == Len(st.heap)
        toKey == Rv(a + 1, << >>, Key(toRv.t))
        toValue == Rv(a + 2, << >>, Elem(toRv.t))
        itKey == Rv(a + 3, << >>, Key(fromRv.t))
        itValue == Rv(a + 4, << >>, Elem(fromRv.t))
        h == st.heap \o <<ZeroValue(Key(toRv.t)), ZeroValue(Elem(toRv.t)),
                          key, Get(st.heap, fromRv)[key]>>
    IN Then(mapValue(mp, toKey, itKey, [st EXCEPT !.heap = h], d + 1),
            LAMBDA rk : IF rk.err # NoErr THEN rk
               ELSE Then(mapValue(mp, toValue, itValue, rk.st, d + 1),
                    LAMBDA rv : IF rv.err # NoErr THEN rv
                       ELSE LET old == Get(rv.st.heap, toRv)
                                k == Get(rv.st.heap, toKey)
                                new == [x \in DOMAIN old \cup {k} |->
                                           IF x = k THEN Get(rv.st.heap, toValue)
                                           ELSE old[x]]
                            IN Ok([rv.st EXCEPT !.heap = Set(@, toRv, new)])))

mapMapLoop(mp, toRv, fromRv, keys, k, st, d) ==
    IF k > Len(keys) THEN Ok(st)
    ELSE Then(mapMapEntry(mp, toRv, fromRv, keys[k], st, d),
              LAMBDA r : IF r.err # NoErr THEN r
                         ELSE mapMapLoop(mp, toRv, fromRv, keys, k + 1, r.st, d))

mapMap(mp, toRv, fromRv, st, d) ==
    mapMapLoop(mp, toRv, fromRv, RangeOrder(DOMAIN Get(st.heap, fromRv), st.ord), 1,
               [st EXCEPT !.heap = Set(@, toRv, << >>)], d)

\* Faulty variant: a destination field without a source field is an error.
mapStructsLoopStrict(mp, toFields, fromFields, names, k, st, d) ==
    IF k > Len(names) THEN Ok(st)
    ELSE IF names[k] \notin DOMAIN fromFields
         THEN [st |-> st, err |-> ErrNoValidMapping(toFields[names[k]].t, "")]
         ELSE Then(mapValue(mp, toFields[names[k]], fromFields[names[k]], st, d + 1),
                   LAMBDA r : IF r.err # NoErr THEN r
                      ELSE mapStructsLoop(mp, toFields, fromFields, names, k + 1, r.st, d))

mapStructsLoop(mp, toFields, fromFields, names, k, st, d) ==
    IF k > Len(names) THEN Ok(st)
    ELSE IF names[k] \notin DOMAIN fromFields
         THEN mapStructsLoop(mp, toFields, fromFields, names, k + 1, st, d)
         ELSE Then(mapValue(mp, toFields[names[k]], fromFields[names[k]], st, d + 1),
                   LAMBDA r : IF r.err # NoErr THEN r
                      ELSE mapStructsLoop(mp, toFields, fromFields, names, k + 1, r.st, d))

mapStructs(mp, toRv, fromRv, st, d) ==
    Then(FieldMap(st.eng, toRv), LAMBDA toFields :
        Then(FieldMap(st.eng, fromRv), LAMBDA fromFields :
            mapStructsLoop(mp, toFields, fromFields,
                           RangeOrder(DOMAIN toFields, st.ord), 1, st, d)))

mapMapToSliceLoop(mp, toRv, fromRv, keys, k, st, d) ==
    IF k > Len(keys) THEN Ok(st)
    ELSE LET itValue == TempRv(st.heap, Elem(fromRv.t))
             h == Append(st.heap, Get(st.heap, fromRv)[keys[k]])
         IN Then(mapValue(mp, IndexRv(toRv, k), itValue, [st EXCEPT !.heap = h], d + 1),
                 LAMBDA r : IF r.err # NoErr THEN r
                    ELSE mapMapToSliceLoop(mp, toRv, fromRv, keys, k + 1, r.st, d))

mapMapToSlice(mp, toRv, fromRv, st, d) ==
    LET src == Get(st.heap, fromRv)
    IN mapMapToSliceLoop(mp, toRv, fromRv, RangeOrder(DOMAIN src, st.ord), 1,
           [st EXCEPT !.heap = Set(@, toRv, ZeroSlice(toRv.t, Cardinality(DOMAIN src)))],
           d)

\* Faulty variant: the inner slice of an entry is read from its end.
flattenLoopBackwards(mp, toRv, fromRv, keys, k, i, j, st, d) ==
    IF k > Len(keys) THEN Ok(st)
    ELSE IF j > Len(Get(st.heap, fromRv)[keys[k]])
         THEN flattenLoop(mp, toRv, fromRv, keys, k + 1, i, 1, st, d)
         ELSE LET itValue == TempRv(st.heap, Elem(fromRv.t))
                  h == Append(st.heap, Get(st.heap, fromRv)[keys[k]])
                  from == IndexRv(itValue, Len(Get(st.heap, fromRv)[keys[k]]) + 1 - j)
              IN Then(mapValue(mp, IndexRv(toRv, i + 1), from,
                               [st EXCEPT !.heap = h], d + 1),
                      LAMBDA r : IF r.err # NoErr THEN r
                         ELSE flattenLoop(mp, toRv, fromRv, keys, k, i + 1, j + 1, r.st, d))

\* i counts the destination positions filled so far, j the position in the
\* inner slice of the k-th entry.
flattenLoop(mp, toRv, fromRv, keys, k, i, j, st, d) ==
    IF k > Len(keys) THEN Ok(st)
    ELSE IF j > Len(Get(st.heap, fromRv)[keys[k]])
         THEN flattenLoop(mp, toRv, fromRv, keys, k + 1, i, 1, st, d)
         ELSE LET itValue == TempRv(st.heap, Elem(fromRv.t))
                  h == Append(st.heap, Get(st.heap, fromRv)[keys[k]])
              IN Then(mapValue(mp, IndexRv(toRv, i + 1), IndexRv(itValue, j),
                               [st EXCEPT !.heap = h], d + 1),
                      LAMBDA r : IF r.err # NoErr THEN r
                         ELSE flattenLoop(mp, toRv, fromRv, keys, k, i + 1, j + 1, r.st, d))

RECURSIVE SumLen(_, _, _)
SumLen(src, keys, k) ==
    IF k > Len(keys) THEN 0 ELSE Len(src[keys[k]]) + SumLen(src, keys, k + 1)

mapMapSlicesToSlice(mp, toRv, fromRv, st, d) ==
    LET src == Get(st.heap, fromRv)
        keys == RangeOrder(DOMAIN src, st.ord)
    IN flattenLoop(mp, toRv, fromRv, keys, 1, 0, 1,
           [st EXCEPT !.heap = Set(@, toRv, ZeroSlice(toRv.t, SumLen(src, keys, 1)))], d)

\* Faulty variant: a failed flatten attempt returns its own error.
mapValueRulesFlattenError(mp, toRv, fromRv, st, d) ==
    LET tk == Kind(toRv.t)
        fk == Kind(fromRv.t)
        ev(s, name) == Log(s, name, toRv, fromRv.t, "", NoErr, d)
    IN
    IF TriesDirect(st.eng, mp, fk) /\ AssignableTo(fromRv.t, toRv.t)
    THEN Ok(ev([st EXCEPT !.heap = Set(@, toRv, Get(st.heap, fromRv))], "assign"))
    ELSE IF TriesDirect(st.eng, mp, fk) /\ ConvertibleTo(fromRv.t, toRv.t)
    THEN Ok(ev([st EXCEPT !.heap =
                   Set(@, toRv, Convert(Get(st.heap, fromRv), fromRv.t, toRv.t))],
               "convert"))
    ELSE IF fk = "ptr"
    THEN IF Get(st.heap, fromRv) = 0
         THEN Ok(ev(st, "nilFrom"))
         ELSE mapValue(mp, toRv, ElemRv(st.heap, fromRv), ev(st, "derefFrom"), d + 1)
    ELSE IF tk = "ptr"
    THEN IF Get(st.heap, toRv) = 0
         THEN Then(ev([st EXCEPT !.heap = Set(New(@, Elem(toRv.t)), toRv, Len(@) + 1)],
                      "alloc"),
                   LAMBDA st1 : mapValue(mp, ElemRv(st1.heap, toRv), fromRv,
                                         ev(st1, "derefTo"), d + 1))
         ELSE mapValue(mp, ElemRv(st.heap, toRv), fromRv, ev(st, "derefTo"), d + 1)
    ELSE IF tk = "struct" /\ fk = "struct"
    THEN mapStructs(mp, toRv, fromRv, ev(st, "struct"), d)
    ELSE IF tk = "slice" /\ fk = "slice"
    THEN mapSlice(mp, toRv, fromRv, ev(st, "slice"), d)
    ELSE IF tk = "map" /\ fk = "map"
    THEN mapMap(mp, toRv, fromRv, ev(st, "map"), d)
    ELSE IF tk = "slice" /\ fk = "map"
    THEN Then(mapMapToSlice(mp, toRv, fromRv, ev(st, "mapToSlice"), d),
              LAMBDA r :
                 IF r.err.kind = "NoValidMapping" /\ Kind(Elem(fromRv.t)) = "slice"
                 THEN Then(mapMapSlicesToSlice(mp, toRv, fromRv, ev(r.st, "flatten"), d),
                           LAMBDA rf : IF rf.err = NoErr THEN rf
                                       ELSE rf)
                 ELSE r)
    ELSE [st |-> ev(st, "nomapping"), err |-> ErrNoValidMapping(toRv.t, fromRv.t)]

\* Steps 2 to 9 of mapValue: what is tried when no conversion function applies.
mapValueRules(mp, toRv, fromRv, st, d) ==
    LET tk == Kind(toRv.t)
        fk == Kind(fromRv.t)
        ev(s, name) == Log(s, name, toRv, fromRv.t, "", NoErr, d)
    IN
    IF TriesDirect(st.eng, mp, fk) /\ AssignableTo(fromRv.t, toRv.t)
    THEN Ok(ev([st EXCEPT !.heap = Set(@, toRv, Get(st.heap, fromRv))], "assign"))
    ELSE IF TriesDirect(st.eng, mp, fk) /\ ConvertibleTo(fromRv.t, toRv.t)
    THEN Ok(ev([st EXCEPT !.heap =
                   Set(@, toRv, Convert(Get(st.heap, fromRv), fromRv.t, toRv.t))],
               "convert"))
    ELSE IF fk = "ptr"
    THEN IF Get(st.heap, fromRv) = 0
         THEN Ok(ev(st, "nilFrom"))
         ELSE mapValue(mp, toRv, ElemRv(st.heap, fromRv), ev(st, "derefFrom"), d + 1)
    ELSE IF tk = "ptr"
    THEN IF Get(st.heap, toRv) = 0
         THEN Then(ev([st EXCEPT !.heap = Set(New(@, Elem(toRv.t)), toRv, Len(@) + 1)],
                      "alloc"),
                   LAMBDA st1 : mapValue(mp, ElemRv(st1.heap, toRv), fromRv,
                                         ev(st1, "derefTo"), d + 1))
         ELSE mapValue(mp, ElemRv(st.heap, toRv), fromRv, ev(st, "derefTo"), d + 1)
    ELSE IF tk = "struct" /\ fk = "struct"
    THEN mapStructs(mp, toRv, fromRv, ev(st, "struct"), d)
    ELSE IF tk = "slice" /\ fk = "slice"
    THEN mapSlice(mp, toRv, fromRv, ev(st, "slice"), d)
    ELSE IF tk = "map" /\ fk = "map"
    THEN mapMap(mp, toRv, fromRv, ev(st, "map"), d)
    ELSE IF tk = "slice" /\ fk = "map"
    THEN Then(mapMapToSlice(mp, toRv, fromRv, ev(st, "mapToSlice"), d),
              LAMBDA r :
                 IF r.err.kind = "NoValidMapping" /\ Kind(Elem(fromRv.t)) = "slice"
                 THEN Then(mapMapSlicesToSlice(mp, toRv, fromRv, ev(r.st, "flatten"), d),
                           LAMBDA rf : IF rf.err = NoErr THEN rf
                                       ELSE [st |-> rf.st, err |-> r.err])
                 ELSE r)
    ELSE [st |-> ev(st, "nomapping"), err |-> ErrNoValidMapping(toRv.t, fromRv.t)]

\* Faulty variant: direct assignment is tried before the conversion functions.
mapValueBodyDirectFirst(mp, toRv, fromRv, st, d) ==
    IF TriesDirect(st.eng, mp, Kind(fromRv.t)) /\ AssignableTo(fromRv.t, toRv.t)
    THEN mapValueRules(mp, toRv, fromRv, st, d)
    ELSE Then(runConvFuncs(mp, toRv, fromRv, st, d),
              LAMBDA c : IF c.converted THEN [st |-> c.st, err |-> c.err]
                         ELSE mapValueRules(mp, toRv, fromRv, st, d))

\* Step 1, then the other rules: a registered conversion function decides
\* the node, whatever it returns.
mapValueBody(mp, toRv, fromRv, st, d) ==
    Then(runConvFuncs(mp, toRv, fromRv, st, d),
         LAMBDA c : IF c.converted THEN [st |-> c.st, err |-> c.err]
                    ELSE mapValueRules(mp, toRv, fromRv, st, d))

\* The deferred function of mapValue: inspection runs when the body
\* returned no error, and its error becomes the result.
mapValueDeferred(mp, toRv, fromRv, b, d) ==
    IF b.err = StackOverflow THEN b
    ELSE IF b.err # NoErr
    THEN [st |-> Log(b.st, "exit", toRv, fromRv.t, "", b.err, d), err |-> b.err]
    ELSE Then(runInspectFuncs(mp, toRv, fromRv, b.st, d),
              LAMBDA r : [st |-> Log(r.st, "exit", toRv, fromRv.t, "", r.err, d),
                          err |-> r.err])

\* One activation of mapValue on evaluated arguments.  A recursion deeper
\* than MaxDepth exhausts the goroutine stack: the runtime aborts the
\* program and nothing deferred runs.
mapValueCall(mp, toRv, fromRv, st, d) ==
    IF d > MaxDepth
    THEN [st |-> Log(st, "overflow", toRv, fromRv.t, "", StackOverflow, d),
          err |-> StackOverflow]
    ELSE Then(mapValueBody(mp, toRv, fromRv,
                           Log(st, "enter", toRv, fromRv.t, "", NoErr, d), d),
              LAMBDA b : mapValueDeferred(mp, toRv, fromRv, b, d))

mapValue(mp, toRv, fromRv, st, d) ==
    CHOOSE y \in { mapValueCall(mp, t, f, s, d) : t \in {toRv}, f \in {fromRv}, s \in {st} } :
        TRUE

----------------------------------------------------------------------------
(* The values a caller may pass.  Cell 1 holds the destination, cell 2 the  *)
(* source, cells 3 and 4 two objects that pointers of either may refer to.  *)

PoolProduct == [Name |-> 1, Price |-> 5]
PoolDTO == [Name |-> 2, Price |-> 1, Extra |-> 1]
PoolAddrs(t) ==
    CASE t = "Product" -> {3}
      [] t = "ProductDTO" -> {4}
      [] t = "Node" -> {2}
      [] OTHER -> {}

\* A float32 payload n stands for n/2: the float32 values drawn are 0 and an
\* odd half (1.5, 2.5, ...); the other primitives are 0 and MaxPrim.
PrimOf(t, x) == IF Kind(t) = "float32" /\ x > 0 THEN 2 * x + 1 ELSE x

PrimRange(lvl) == IF lvl < 2 THEN {0, MaxPrim} ELSE {MaxPrim}

\* The struct value whose primitive fields all hold x (pointers are nil).
RECURSIVE Uniform(_, _)
RECURSIVE UniformFields(_, _, _)
UniformFields(fs, i, x) ==
    IF i > Len(fs) THEN << >>
    ELSE (fs[i].name :> Uniform(fs[i].type, x)) @@ UniformFields(fs, i + 1, x)

Uniform(t, x) ==
    CASE Kind(t) = "struct" -> UniformFields(Fields(t), 1, x)
      [] Kind(t) \in {"slice", "map"} -> << >>
      [] Kind(t) = "ptr" -> 0
      [] OTHER -> PrimOf(t, x)

\* Length of the slices and maps drawn: up to MaxLen outermost, up to 1 inside.
Room(lvl) == IF lvl = 0 THEN MaxLen ELSE 1

RECURSIVE Values(_, _)
RECURSIVE StructVals(_, _, _)
StructVals(fs, i, lvl) ==
    IF i > Len(fs) THEN { << >> }
    ELSE { (fs[i].name :> v) @@ r :
             v \in Values(fs[i].type, lvl), r \in StructVals(fs, i + 1, lvl) }

\* lvl is the number of slices and maps around the value: the deeper, the
\* fewer values are enumerated, and a struct inside a slice or map is uniform.
\* A map of structs is drawn by its key set: the entries of odd keys differ
\* from those of even keys.
Values(t, lvl) ==
    CASE Kind(t) = "struct" ->
            IF lvl = 0 THEN StructVals(Fields(t), 1, lvl)
            ELSE { Uniform(t, x) : x \in PrimRange(lvl) }
      [] Kind(t) = "ptr" -> {0} \cup PoolAddrs(Elem(t))
      [] Kind(t) = "slice" ->
            UNION { [1..n -> Values(Elem(t), lvl + 1)] : n \in 0..Room(lvl) }
      [] Kind(t) = "map" ->
            IF Kind(Elem(t)) = "slice"
            THEN UNION { [ks -> Values(Elem(t), lvl + 1)] : ks \in SUBSET (1..Room(lvl)) }
            ELSE { [k \in ks |-> Uniform(Elem(t), (k % 2) * MaxPrim)] :
                     ks \in SUBSET (1..Room(lvl)) }
      [] OTHER -> { PrimOf(t, x) : x \in PrimRange(lvl) }

\* A destination that was used before: nothing in it is zero, and its
\* slices and maps are larger than any source's.
RECURSIVE Dirty(_)
RECURSIVE DirtyFields(_, _)
DirtyFields(fs, i) ==
    IF i > Len(fs) THEN << >>
    ELSE (fs[i].name :> Dirty(fs[i].type)) @@ DirtyFields(fs, i + 1)

Dirty(t) ==
    CASE Kind(t) = "struct" -> DirtyFields(Fields(t), 1)
      [] Kind(t) = "ptr" -> IF PoolAddrs(Elem(t)) = {} THEN 0 ELSE CHOOSE a \in PoolAddrs(Elem(t)) : TRUE
      [] Kind(t) = "slice" -> [i \in 1..(MaxLen + 1) |-> Dirty(Elem(t))]
      [] Kind(t) = "map" -> [k \in {MaxLen + 1} |-> Dirty(Elem(t))]
      [] OTHER -> MaxPrim + 5

DstValues(t) == {ZeroValue(t), Dirty(t)}

\* The (destination type, source type) pairs of the calls that are made.
Pairs ==
    { <<"ProductDTO", "Product">>, <<"Product", "Product">>,
      <<"NameAndLink", "ProductRef">>, <<"NameAndLink", "Shadow">>,
      <<"OrderDto", "Order">>, <<"Order", "OrderDto">>, <<"Order", "Order">>,
      <<"HolderDTOV", "Holder">>, <<"HolderDTO", "HolderV">>,
      <<"HolderDTO", "Holder">>, <<"Holder", "Holder">>,
      <<"ProductDTO", "PtrProduct">>,
      <<"ProductDTOs", "Products">>, <<"Ints", "Strings">>,
      <<"ByTagDTO", "ByTag">>, <<"ProductDTOs", "ByTag">>,
      <<"ProductDTOs", "Tagged">>,
      <<"int", "string">> }

----------------------------------------------------------------------------
(* State machine *)

NoCall == [to |-> "", from |-> "", heap |-> << >>, ord |-> "fwd"]
NoRes == [heap |-> << >>, log |-> << >>, err |-> NoErr]
EmptyMapper == [convFunc |-> << >>, postFunc |-> << >>]

\* The goroutines that call Map on one Mapper at the same time, and the
\* record of a caller that has not called yet.
Callers == {"a", "b"}
IdleRun == [pc |-> "idle"]

Init ==
    /\ engine \in {"dto", "part000"}
    /\ m = EmptyMapper
    /\ pc = "idle"
    /\ call = NoCall
    /\ res = NoRes
    /\ runs = [g \in Callers |-> IdleRun]
    /\ regs = << >>

\* The number of functions the Mapper holds.
Registrations(mp) ==
    Cardinality(UNION {{<<F, T>> : T \in DOMAIN mp.convFunc[F]} : F \in DOMAIN mp.convFunc})
    + Cardinality(UNION {UNION {{<<D, R, n>> : n \in 1..Len(mp.postFunc[D][R])} :
                                  R \in DOMAIN mp.postFunc[D]} : D \in DOMAIN mp.postFunc})

\* Faulty variant: a pair that has a conversion function keeps it.
AddedConvFuncFirstWins(mp, f) ==
    LET inner == IF f.in \in DOMAIN mp.convFunc THEN mp.convFunc[f.in] ELSE << >>
    IN [mp EXCEPT !.convFunc = (f.in :> (inner @@ (f.out :> f.id))) @@ @]

\* The Mapper after m.convFunc[inType][outType] = closure
AddedConvFunc(mp, f) ==
    LET inner == IF f.in \in DOMAIN mp.convFunc THEN mp.convFunc[f.in] ELSE << >>
    IN [mp EXCEPT !.convFunc = (f.in :> ((f.out :> f.id) @@ inner)) @@ @]

\* The Mapper after
\* m.postFunc[inType][fromType] = append(m.postFunc[inType][fromType], closure)
AddedInspectFunc(mp, f) ==
    LET inner == IF f.to \in DOMAIN mp.postFunc THEN mp.postFunc[f.to] ELSE << >>
        old == IF f.recv \in DOMAIN inner THEN inner[f.recv] ELSE << >>
    IN [mp EXCEPT !.postFunc = (f.to :> ((f.recv :> Append(old, f.id)) @@ inner)) @@ @]

AddConvFunc(f) ==
    /\ pc = "idle"
    /\ Registrations(m) < MaxReg
    /\ m' = AddedConvFunc(m, f)
    /\ UNCHANGED <<engine, pc, call, res, runs, regs>>

AddInspectFunc(f) ==
    /\ pc = "idle"
    /\ Registrations(m) < MaxReg
    /\ m' = AddedInspectFunc(m, f)
    /\ UNCHANGED <<engine, pc, call, res, runs, regs>>

\* m.Map(to, from): to is the address of cell 1; from is the value of cell 2.
Map(to, from, tv, fv, ord) ==
    /\ pc = "idle"
    /\ LET heap0 == <<tv, fv, PoolProduct, PoolDTO>>
           r == mapValue(m, Rv(1, << >>, to), Rv(2, << >>, from),
                         [heap |-> heap0, log |-> << >>, ord |-> ord, eng |-> engine], 0)
       IN /\ call' = [to |-> to, from |-> from, heap |-> heap0, ord |-> ord]
          /\ res' = [heap |-> r.st.heap, log |-> r.st.log, err |-> r.err]
    /\ pc' = "done"
    /\ UNCHANGED <<engine, m, runs, regs>>

\* The caller takes the result; the Mapper may be used again.
Return ==
    /\ pc = "done"
    /\ pc' = "idle"
    /\ call' = NoCall
    /\ res' = NoRes
    /\ UNCHANGED <<engine, m, runs, regs>>

Next ==
    \/ \E f \in ConvCatalog : AddConvFunc(f)
    \/ \E f \in InspectCatalog : AddInspectFunc(f)
    \/ \E pr \in Pairs : \E tv \in DstValues(pr[1]) : \E fv \in Values(pr[2], 0) :
          \E ord \in Orders : Map(pr[1], pr[2], tv, fv, ord)
    \/ Return

Spec == Init /\ [][Next]_vars

----------------------------------------------------------------------------
(* A second universe of calls, on maps: the keys are converted or pass      *)
(* through a conversion function, so that two source keys may meet in one   *)
(* destination key, and the inner sequences of a map of sequences have up   *)
(* to two elements that differ.  The operations are the same.               *)

MapsConvCatalog == {f \in ConvCatalog : f.id \in {"called", "round"}}
MapsInspectCatalog == {f \in InspectCatalog : f.id \in {"bump", "failDTO"}}

\* The inner sequences drawn: none, one element, two elements that differ.
InnerLists(t) ==
    { << >>, <<Uniform(Elem(t), MaxPrim)>>,
      <<Uniform(Elem(t), 0), Uniform(Elem(t), MaxPrim)>> }

MapValues(t) ==
    IF Kind(t) = "map" /\ Kind(Elem(t)) = "slice"
    THEN UNION { [ks -> InnerLists(Elem(t))] : ks \in SUBSET (1..MaxLen) }
    ELSE Values(t, 0)

MapPairs ==
    { <<"ByPriceDTO", "ByPrice">>, <<"ProductDTOs", "ByTag">>,
      <<"ProductDTOs", "Tagged">>, <<"ProductDTOLists", "Tagged">>,
      <<"Products", "ByCount">> }

NextMaps ==
    \/ \E f \in MapsConvCatalog : AddConvFunc(f)
    \/ \E f \in MapsInspectCatalog : AddInspectFunc(f)
    \/ \E pr \in MapPairs : \E tv \in DstValues(pr[1]) : \E fv \in MapValues(pr[2]) :
          \E ord \in Orders : Map(pr[1], pr[2], tv, fv, ord)
    \/ Return

SpecMaps == Init /\ [][NextMaps]_vars

----------------------------------------------------------------------------
(* A third universe of calls, on pointers: the source or the destination   *)
(* of the call is itself a pointer, absent or present, and a present       *)
(* destination pointer refers to an object that is in use.                 *)

PtrPairs ==
    { <<"ProductDTO", "PtrProduct">>, <<"PtrProductDTO", "Product">>,
      <<"PtrProductDTO", "PtrProduct">>, <<"PtrProduct", "PtrProduct">>,
      <<"ProductDTO", "Product">> }

NextPtr ==
    \/ \E f \in ConvCatalog : AddConvFunc(f)
    \/ \E f \in InspectCatalog : AddInspectFunc(f)
    \/ \E pr \in PtrPairs : \E tv \in DstValues(pr[1]) : \E fv \in Values(pr[2], 0) :
          \E ord \in Orders : Map(pr[1], pr[2], tv, fv, ord)
    \/ Return

SpecPtr == Init /\ [][NextPtr]_vars

----------------------------------------------------------------------------
(* Concurrent callers.  Each caller maps a sequence onto a sequence of its  *)
(* own; the call advances one element at a time, and between two steps of   *)
(* one caller the other may take any number of its own.  The callers share  *)
(* the Mapper and nothing else: destination, source and the frames of the   *)
(* recursion belong to the call.  Functions are registered before the       *)
(* first call starts.                                                       *)

ConcConvCatalog == {f \in ConvCatalog : f.id \in {"called", "round"}}
ConcInspectCatalog == {f \in InspectCatalog : f.id \in {"bump", "failDTO"}}

ConcPairs == { <<"ProductDTOs", "Products">> }

\* The sources drawn: the longest sequence, its elements alternating, and a
\* sequence of one element.
ConcSources(t) ==
    { [i \in 1..MaxLen |-> Uniform(Elem(t), (i % 2) * MaxPrim)],
      <<Uniform(Elem(t), MaxPrim)>> }

\* Each caller has its own destination.
ConcDst(g, t) == IF g = "a" THEN ZeroValue(t) ELSE Dirty(t)

\* Faulty variant: functions are registered while calls are in progress.
RegistrationOpenAlways(rs) == \A g \in Callers : rs[g].pc \in {"idle", "loop", "defer", "done"}

\* The documented contract: no registration once a mapping call has started.
RegistrationOpen(rs) == \A g \in Callers : rs[g].pc = "idle"

Register ==
    /\ RegistrationOpen(runs)
    /\ \/ \E f \in ConcConvCatalog : AddConvFunc(f)
       \/ \E f \in ConcInspectCatalog : AddInspectFunc(f)

\* Another caller is in the middle of its call.
Overlaps(g) == \E o \in Callers \ {g} : runs[o].pc \in {"loop", "defer"}

\* Caller g enters m.Map(to, from) for a pair the Sequence->Sequence rule
\* decides: mapValue finds no conversion function and no direct assignment
\* or conversion, and mapSlice allocates the destination.
Go(g, to, from, fv, ord) ==
    /\ runs[g].pc = "idle"
    /\ Kind(to) = "slice" /\ Kind(from) = "slice"
    /\ ConvFuncFor(m, to, from) = ""
    /\ ~(TriesDirect(engine, m, Kind(from)) /\ ConvertibleTo(from, to))
    /\ LET toRv == Rv(1, << >>, to)
           st0 == [heap |-> <<ConcDst(g, to), fv, PoolProduct, PoolDTO>>,
                   log |-> << >>, ord |-> ord, eng |-> engine]
           st1 == Log(Log(st0, "enter", toRv, from, "", NoErr, 0),
                      "slice", toRv, from, "", NoErr, 0)
           st2 == [st1 EXCEPT !.heap = Set(@, toRv, ZeroSlice(to, Len(fv)))]
       IN runs' = [runs EXCEPT ![g] =
                      [pc |-> IF Len(fv) = 0 THEN "defer" ELSE "loop",
                       to |-> to, from |-> from, m0 |-> m, st0 |-> st0,
                       st |-> st2, i |-> 1, err |-> NoErr, overlap |-> FALSE]]
    /\ UNCHANGED <<engine, m, pc, call, res, regs>>

\* One iteration of the loop of mapSlice in the call of caller g.
ElemStep(g) ==
    /\ runs[g].pc = "loop"
    /\ LET rn == runs[g]
           toRv == Rv(1, << >>, rn.to)
           fromRv == Rv(2, << >>, rn.from)
           r == mapValue(m, IndexRv(toRv, rn.i), IndexRv(fromRv, rn.i), rn.st, 1)
           last == r.err # NoErr \/ rn.i = Len(Get(rn.st.heap, fromRv))
       IN runs' = [runs EXCEPT ![g] =
                      [rn EXCEPT !.st = r.st, !.err = r.err, !.i = rn.i + 1,
                                 !.pc = IF last THEN "defer" ELSE "loop",
                                 !.overlap = @ \/ Overlaps(g)]]
    /\ UNCHANGED <<engine, m, pc, call, res, regs>>

\* mapSlice has returned: the deferred function of the call's top node
\* runs, and Map returns to caller g.
DeferStep(g) ==
    /\ runs[g].pc = "defer"
    /\ LET rn == runs[g]
           r == mapValueDeferred(m, Rv(1, << >>, rn.to), Rv(2, << >>, rn.from),
                                 [st |-> rn.st, err |-> rn.err], 0)
       IN runs' = [runs EXCEPT ![g] =
                      [rn EXCEPT !.st = r.st, !.err = r.err, !.pc = "done",
                                 !.overlap = @ \/ Overlaps(g)]]
    /\ UNCHANGED <<engine, m, pc, call, res, regs>>

NextConc ==
    \/ Register
    \/ \E g \in Callers : \E pr \in ConcPairs : \E fv \in ConcSources(pr[2]) :
          \E ord \in Orders : Go(g, pr[1], pr[2], fv, ord)
    \/ \E g \in Callers : ElemStep(g)
    \/ \E g \in Callers : DeferStep(g)

SpecConc == Init /\ [][NextConc]_vars

----------------------------------------------------------------------------
(* Registration with its history: every call of AddConvFunc and             *)
(* AddInspectFunc is recorded, a second call for a pair or a key included.  *)
(* Two of the conversion functions are for one pair of types, two of the    *)
(* inspection functions for one key.                                        *)

RegConvCatalog ==
    {f \in ConvCatalog : f.id \in {"called", "round"}}
       \cup { [id |-> "trunc", in |-> "float32", out |-> "int"] }
RegInspectCatalog == InspectCatalog

RegisterConv(f) ==
    /\ pc = "idle"
    /\ Len(regs) <= MaxReg
    /\ m' = AddedConvFunc(m, f)
    /\ regs' = Append(regs, [conv |-> TRUE, f |-> f])
    /\ UNCHANGED <<engine, pc, call, res, runs>>

RegisterInspect(f) ==
    /\ pc = "idle"
    /\ Len(regs) <= MaxReg
    /\ m' = AddedInspectFunc(m, f)
    /\ regs' = Append(regs, [conv |-> FALSE, f |-> f])
    /\ UNCHANGED <<engine, pc, call, res, runs>>

NextReg ==
    \/ \E f \in RegConvCatalog : RegisterConv(f)
    \/ \E f \in RegInspectCatalog : RegisterInspect(f)

SpecReg == Init /\ [][NextReg]_vars

----------------------------------------------------------------------------
(* Cyclic values.  The source is a list node whose Next pointer is absent   *)
(* or refers to the node itself (cell 2, the source of the call).           *)

CycConvCatalog == {f \in ConvCatalog : f.id = "called"}
CycInspectCatalog == {f \in InspectCatalog : f.id = "bump"}

CycPairs == { <<"NodeDTO", "Node">>, <<"Node", "Node">> }

NextCyc ==
    \/ \E f \in CycConvCatalog : AddConvFunc(f)
    \/ \E f \in CycInspectCatalog : AddInspectFunc(f)
    \/ \E pr \in CycPairs : \E tv \in DstValues(pr[1]) : \E fv \in Values(pr[2], 0) :
          \E ord \in Orders : Map(pr[1], pr[2], tv, fv, ord)
    \/ Return

SpecCyc == Init /\ [][NextCyc]_vars

----------------------------------------------------------------------------
(* Calls that fail half-way: a conversion function that refuses the empty   *)
(* string makes the mapping of some elements, entries and fields fail and   *)
(* that of others succeed.                                                  *)

ErrConvCatalog ==
    {f \in ConvCatalog : f.id = "round"}
       \cup { [id |-> "nonEmpty", in |-> "string", out |-> "string"] }
ErrInspectCatalog == {f \in InspectCatalog : f.id = "bump"}

ErrPairs ==
    { <<"ProductDTOs", "Products">>, <<"ProductDTO", "Product">>,
      <<"ByTagDTO", "ByTag">> }

NextErr ==
    \/ \E f \in ErrConvCatalog : AddConvFunc(f)
    \/ \E f \in ErrInspectCatalog : AddInspectFunc(f)
    \/ \E pr \in ErrPairs : \E tv \in DstValues(pr[1]) : \E fv \in Values(pr[2], 0) :
          \E ord \in Orders : Map(pr[1], pr[2], tv, fv, ord)
    \/ Return

SpecErr == Init /\ [][NextErr]_vars

----------------------------------------------------------------------------
(* Reading the trace of the last call *)

L == res.log
Done == pc = "done"
ToRv == Rv(1, << >>, call.to)
FromRv == Rv(2, << >>, call.from)

Enters == {i \in 1..Len(L) : L[i].ev = "enter"}
SameSlot(i, k) == L[i].a = L[k].a /\ L[i].p = L[k].p

\* The exit event of the node entered at i; 0 when the call was aborted.
ExitOf(i) ==
    LET js == {j \in (i + 1)..Len(L) : L[j].ev = "exit" /\ L[j].d = L[i].d}
    IN IF js = {} THEN 0 ELSE CHOOSE j \in js : \A k \in js : j <= k

\* The node's own events: those of its depth between its enter and its exit.
Own(i) == LET x == ExitOf(i) IN {k \in (i + 1)..(x - 1) : L[k].d = L[i].d}

\* The conversion function the registry holds for the node entered at i.
Registered(i) ==
    IF L[i].from \in DOMAIN m.convFunc /\ L[i].to \in DOMAIN m.convFunc[L[i].from]
    THEN m.convFunc[L[i].from][L[i].to] ELSE ""

----------------------------------------------------------------------------
(* C1: conversion precedence.  At every node for whose (source type,        *)
(* destination type) a conversion function is registered, that function is  *)
(* called first and nothing else is tried: the node's only other events are *)
(* its inspections; an error of the function is the node's result, and a    *)
(* returned value is what the destination holds.                            *)

C1_NodeDecided(i) ==
    LET x == ExitOf(i)
    IN /\ i < Len(L)
       /\ L[i + 1].ev = "conv" /\ L[i + 1].f = Registered(i) /\ SameSlot(i, i + 1)
       /\ x # 0
       /\ \A k \in (i + 2)..(x - 1) : L[k].ev = "inspect" /\ L[k].d = L[i].d
       /\ L[i + 1].err # NoErr => x = i + 2 /\ L[i + 2].err = L[i + 1].err
       /\ (L[i + 1].err = NoErr /\ x = i + 2) => L[i + 2].err = NoErr

\* C1: a registered conversion function decides its node, at every node of
\* every call; its value is what the destination holds.
C1_ConvPrecedence ==
    Done =>
      /\ \A i \in Enters : Registered(i) # "" => C1_NodeDecided(i)
      /\ (Registered(1) # "" /\ Len(L) = 3 /\ res.err = NoErr) =>
            Get(res.heap, ToRv) = ConvCall(Registered(1), call.heap, FromRv).val
      /\ (call.to = "ProductDTO" /\ call.from = "Product" /\ res.err = NoErr
            /\ Registered(1) = "" /\ "float32" \in DOMAIN m.convFunc) =>
            Get(res.heap, ToRv).Price = (Get(call.heap, FromRv).Price + 1) \div 2

\* C1, the case reached: a conversion function registered for (string,
\* string) ran on an assignable pair and its error is the result of the call.
C1_Witness ==
    /\ Done
    /\ \E i \in 1..Len(L) :
          L[i].ev = "conv" /\ L[i].to = "string" /\ L[i].from = "string"
    /\ res.err = UserErr("Called!")

----------------------------------------------------------------------------
(* C2: custom functions are not skipped for assignable types.  With at     *)
(* least one function registered, a call whose source and destination have *)
(* the same type still invokes the conversion function registered for      *)
(* every type found at a nested position of the source value and, when the *)
(* call succeeds, the receiver-less inspection functions of those types.   *)

\* The types found at the nested positions of a value, pointees included.
RECURSIVE NestedTypes(_, _, _)
NestedTypes(heap, rv, n) ==
    {rv.t} \cup
    IF n = 0 THEN {}
    ELSE CASE Kind(rv.t) = "struct" ->
                UNION {NestedTypes(heap, FieldRv(rv, Fields(rv.t)[i]), n - 1) :
                          i \in 1..Len(Fields(rv.t))}
           [] Kind(rv.t) = "ptr" ->
                IF Get(heap, rv) = 0 THEN {}
                ELSE NestedTypes(heap, ElemRv(heap, rv), n - 1)
           [] Kind(rv.t) \in {"slice", "map"} ->
                UNION {NestedTypes(heap, IndexRv(rv, i), n - 1) :
                          i \in DOMAIN Get(heap, rv)}
           [] OTHER -> {}

\* C2: in a call on one type, with a function registered, the functions
\* registered for the types nested in the source value are invoked.
C2_HooksNotSkipped ==
    (Done /\ call.to = call.from /\ HasCustomFuncs(m)) =>
      \A T \in NestedTypes(call.heap, FromRv, MaxDepth) :
        /\ (T \in DOMAIN m.convFunc /\ T \in DOMAIN m.convFunc[T]) =>
              \E k \in 1..Len(L) : L[k].ev = "conv" /\ L[k].to = T /\ L[k].from = T
        /\ (res.err = NoErr /\ T \in DOMAIN m.postFunc
              /\ nilRecvRfType \in DOMAIN m.postFunc[T]) =>
              \E k \in 1..Len(L) : L[k].ev = "inspect" /\ L[k].to = T

----------------------------------------------------------------------------
(* C3: inspection firing.  At every node that completes without error each *)
(* applicable inspection function is invoked for the destination slot,     *)
(* after every other event of the node, and no function is invoked twice   *)
(* for one slot during a call.                                             *)

\* The inspection functions registered for the node entered at i.
Applicable(i) ==
    IF L[i].to \in DOMAIN m.postFunc
    THEN LET byRecv == m.postFunc[L[i].to]
             typed == IF L[i].from \in DOMAIN byRecv THEN byRecv[L[i].from] ELSE << >>
             bare == IF nilRecvRfType \in DOMAIN byRecv THEN byRecv[nilRecvRfType]
                     ELSE << >>
         IN typed \o bare
    ELSE << >>

Inspections(i) == {k \in Own(i) : L[k].ev = "inspect"}

C3_FiredForNode(i) ==
    /\ \A k \in Inspections(i) : \A j \in (k + 1)..(ExitOf(i) - 1) : j \in Inspections(i)
    /\ L[ExitOf(i)].err = NoErr =>
          /\ Cardinality(Inspections(i)) = Len(Applicable(i))
          /\ \A n \in 1..Len(Applicable(i)) :
                \E k \in Inspections(i) : L[k].f = Applicable(i)[n] /\ SameSlot(i, k)

\* The invocations of f for the slot of node i are no more than the
\* registrations of f that apply to the node.
C3_AtMostOncePerSlot ==
    \A i \in Enters :
       (ExitOf(i) # 0 /\ L[ExitOf(i)].err = NoErr) =>
          \A f \in {Applicable(i)[n] : n \in 1..Len(Applicable(i))} :
             Cardinality({k \in 1..Len(L) :
                            L[k].ev = "inspect" /\ L[k].f = f /\ SameSlot(i, k)})
                <= Cardinality({n \in 1..Len(Applicable(i)) : Applicable(i)[n] = f})

\* C3: at every node that completes, each applicable inspection function
\* runs after the node's other events, and once for the slot.
C3_InspectOncePerSlot ==
    Done => /\ \A i \in Enters : ExitOf(i) # 0 => C3_FiredForNode(i)
            /\ C3_AtMostOncePerSlot

----------------------------------------------------------------------------
(* C4: inspection selection and order.  The inspection functions invoked   *)
(* at a (D, S) node are those registered for D with receiver S, then those *)
(* registered for D without a receiver, each group in the order of         *)
(* registration, up to the first one that returns an error; no other       *)
(* function is invoked at the node.  Registration order is the order of    *)
(* the lists, since a registration only appends to one list.               *)

\* The node's inspection events are the last events before its exit.
C4_NodeOrder(i) ==
    LET n == Cardinality(Inspections(i))
        first == ExitOf(i) - n
        app == Applicable(i)
    IN /\ n <= Len(app)
       /\ \A j \in 1..n :
             /\ L[first + j - 1].ev = "inspect"
             /\ L[first + j - 1].f = app[j]
             /\ SameSlot(i, first + j - 1)
             /\ j < n => L[first + j - 1].err = NoErr
       /\ n < Len(app) => L[ExitOf(i)].err # NoErr
       /\ n > 0 => L[ExitOf(i)].err = L[ExitOf(i) - 1].err

C4_RunOrder == Done => \A i \in Enters : ExitOf(i) # 0 => C4_NodeOrder(i)

\* Every list of the registry is a prefix of what it is after a step.
C4_AppendOnly ==
    \A D \in DOMAIN m.postFunc : \A R \in DOMAIN m.postFunc[D] :
       /\ D \in DOMAIN m'.postFunc /\ R \in DOMAIN m'.postFunc[D]
       /\ Len(m'.postFunc[D][R]) >= Len(m.postFunc[D][R])
       /\ SubSeq(m'.postFunc[D][R], 1, Len(m.postFunc[D][R])) = m.postFunc[D][R]

\* C4: inspections run typed first, then receiver-less, in list order up
\* to the first error, and a registration appends to its list.
C4_InspectOrder == [](C4_RunOrder) /\ [][C4_AppendOnly]_vars

\* C4, the case reached: a node ran a typed function and then a
\* receiver-less one.
C4_Witness ==
    /\ Done
    /\ \E i \in Enters :
          /\ ExitOf(i) # 0
          /\ Len(Applicable(i)) = 2
          /\ Applicable(i)[1] = "expensive" /\ Applicable(i)[2] # "expensive"
          /\ Cardinality(Inspections(i)) = 2

----------------------------------------------------------------------------
(* C5: error short-circuit.                                                *)

\* The events at which a registered function returned an error.
Failures == {k \in 1..Len(L) : L[k].ev \in {"conv", "inspect"} /\ L[k].err # NoErr}

\* Nothing is mapped and no function is invoked after event k: the nodes
\* that were open only return.
C5_NothingAfter(k) == \A j \in (k + 1)..Len(L) : L[j].ev = "exit"

FlattenAt(k) ==
    {ij \in Enters \X (1..Len(L)) :
        /\ ij[1] < ij[2] /\ ij[2] < k
        /\ ExitOf(ij[1]) = 0 \/ k < ExitOf(ij[1])
        /\ L[ij[2]].ev = "flatten" /\ L[ij[2]].d = L[ij[1]].d}

----------------------------------------------------------------------------
(* C6: the shape of the no-valid-mapping error.                            *)

\* The events at which no rule applied to the pair of a node.
NoMappings == {k \in 1..Len(L) : L[k].ev = "nomapping"}

\* The error names the pair of event k, and equals any other error made
\* for the same pair.
NamesPair(e, k) ==
    /\ e.kind = "NoValidMapping" /\ e.to = L[k].to /\ e.from = L[k].from
    /\ e = ErrNoValidMapping(L[k].to, L[k].from)

\* C6 as stated: when no rule applies to a pair the dispatcher has reached,
\* Map fails with the error that names this pair, the innermost one.
C6_NoValidMappingShape ==
    Done => \A k \in NoMappings : NamesPair(res.err, k)

\* The nodes open at event k that project a map of sequences onto a
\* sequence, the nodes which have the flatten fallback.
ProjectionsAt(k) ==
    {i \in Enters : /\ i < k
                    /\ ExitOf(i) = 0 \/ k < ExitOf(i)
                    /\ L[i + 1].ev = "mapToSlice"
                    /\ Kind(Elem(L[i].from)) = "slice"}

(* C6, amended: when no rule applies to a pair and no conversion function  *)
(* is registered for it, Map fails with the error that names this pair,    *)
(* the innermost one, unless the pair was reached while projecting a map   *)
(* of sequences onto a sequence: that node then tries to flatten, and it   *)
(* succeeds or fails with the error of the projection attempt.             *)
C6_NoValidMappingOutsideFallback ==
    Done => \A k \in NoMappings :
       /\ L[k - 1].ev = "enter" /\ SameSlot(k - 1, k) /\ Registered(k - 1) = ""
       /\ ProjectionsAt(k) = {} => NamesPair(res.err, k)
       /\ \A i \in ProjectionsAt(k) :
             \E fl \in Own(i) :
                /\ L[fl].ev = "flatten"
                /\ L[fl - 1].ev = "exit" /\ L[fl - 1].err.kind = "NoValidMapping"
                /\ \/ L[ExitOf(i)].err = L[fl - 1].err
                   \/ L[ExitOf(i)].err = NoErr
                   \/ L[ExitOf(i) - 1].ev = "inspect"

\* C6, the case reached: Map failed at a pair below the top node and
\* reports that pair.
C6_Witness ==
    /\ Done
    /\ \E k \in NoMappings :
          /\ L[k].d > 0 /\ ProjectionsAt(k) = {}
          /\ L[k].to # call.to /\ L[k].from # call.from
          /\ res.err.to = L[k].to /\ res.err.from = L[k].from

----------------------------------------------------------------------------
(* C7: field-name correspondence.  A struct mapped onto a struct field by  *)
(* field maps exactly the fields whose names both sides have, each         *)
(* destination field from the source field of its name; a destination      *)
(* field without a source field keeps its value and is no error, a source  *)
(* field without a destination field is ignored, and the source value is   *)
(* not modified.                                                           *)

\* The field names of a struct type, those of its embedded structs
\* included; the engine of part_000 does not see the fields tagged ignore.
RECURSIVE Names(_, _)
Names(eng, t) ==
    LET fs == Fields(t)
        seen == {k \in 1..Len(fs) : ~(eng = "part000" /\ fs[k].ignore)}
    IN {fs[k].name : k \in {x \in seen : ~fs[x].anon}}
       \cup UNION {Names(eng, fs[k].type) : k \in {x \in seen : fs[x].anon}}

\* The nodes mapped field by field, and the nodes directly below a node.
StructNodes == {i \in Enters : i < Len(L) /\ L[i + 1].ev = "struct" /\ ExitOf(i) # 0}
Children(i) ==
    LET x == ExitOf(i) IN {j \in (i + 1)..(x - 1) : L[j].ev = "enter" /\ L[j].d = L[i].d + 1}
ChildName(j) == L[j].p[Len(L[j].p)].n

C7_NodeFields(i) ==
    LET both == Names(engine, L[i].to) \cap Names(engine, L[i].from)
        x == ExitOf(i)
        below == Children(i)
    IN /\ \A j \in below :
             /\ ChildName(j) \in both
             /\ L[j].a = L[i].a
             /\ Len(L[j].p) > Len(L[i].p)
             /\ SubSeq(L[j].p, 1, Len(L[i].p)) = L[i].p
       /\ \A j1, j2 \in below : ChildName(j1) = ChildName(j2) => j1 = j2
       /\ L[x].err = NoErr => {ChildName(j) : j \in below} = both
       /\ L[x].err # NoErr =>
             /\ L[x - 1].err = L[x].err
             /\ \/ L[x - 1].ev = "inspect"
                \/ L[x - 1].ev = "exit" /\ L[x - 1].d = L[i].d + 1

\* The named fields a struct type declares itself.
Flat(t) == {Fields(t)[k] : k \in {x \in 1..Len(Fields(t)) : ~Fields(t)[x].anon}}

\* The call mapped its arguments field by field, without error, and no
\* inspection function touched the destination.
PlainWalk ==
    /\ Done /\ Len(L) >= 2 /\ L[2].ev = "struct"
    /\ res.err = NoErr /\ Inspections(1) = {}

C7_TopValues ==
    PlainWalk =>
       \A f \in Flat(call.to) :
          /\ f.name \notin Names(engine, call.from) =>
                res.heap[1][f.name] = call.heap[1][f.name]
          /\ ( /\ f.name \in Names(engine, call.to) \cap Names(engine, call.from)
                /\ Kind(f.type) \in {"string", "int", "float32"}
                /\ \E g \in Flat(call.from) : g.name = f.name /\ g.type = f.type
                /\ \A k \in 1..Len(Fields(call.from)) : ~Fields(call.from)[k].anon ) =>
                res.heap[1][f.name] = call.heap[2][f.name]

\* C7: at every struct node the fields mapped are those named on both
\* sides; the other destination fields keep their values; the source is
\* what it was.
C7_FieldCorrespondence ==
    /\ Done => \A i \in StructNodes : C7_NodeFields(i)
    /\ C7_TopValues
    /\ Done => res.heap[2] = call.heap[2]

\* C7, the case reached: a field-by-field call in which one destination
\* field had no source field and kept a non-zero value, and one source field
\* had no destination field.
C7_Witness ==
    /\ PlainWalk
    /\ Names(engine, call.from) \ Names(engine, call.to) # {}
    /\ \E f \in Flat(call.to) :
          /\ f.name \notin Names(engine, call.from)
          /\ res.heap[1][f.name] # ZeroValue(f.type)

----------------------------------------------------------------------------
(* C8: the ignore annotation.  With the engine that reads the annotation   *)
(* (src/unnamed/part_000), for every pair of struct types, the two being   *)
(* the same type included: an ignored destination field keeps the value    *)
(* it had before the call, no node is entered for an ignored field or      *)
(* below an ignored embedded field, and a destination field whose only     *)
(* source field is ignored keeps its value.                                *)

\* The fields a struct type declares with the ignore annotation.
Ignored(t) == {Fields(t)[k] : k \in {x \in 1..Len(Fields(t)) : Fields(t)[x].ignore}}

\* C8: with the engine that reads the annotation, ignored fields are
\* neither written, nor entered, nor read.
C8_IgnoredUntouched ==
    (Done /\ engine = "part000" /\ Kind(call.to) = "struct" /\ Kind(call.from) = "struct") =>
       /\ \A f \in Ignored(call.to) : res.heap[1][f.name] = call.heap[1][f.name]
       /\ \A j \in Enters : \A n \in 1..Len(L[j].p) :
             L[j].a = 1 => L[j].p[n].n \notin {f.name : f \in Ignored(call.to)}
       /\ PlainWalk =>
             \A f \in Flat(call.to) :
                f.name \notin Names("part000", call.from) =>
                   res.heap[1][f.name] = call.heap[1][f.name]

----------------------------------------------------------------------------
(* C9: embedding is transparent.  The field map of a struct value holds    *)
(* the named fields of the struct and of its embedded structs at any       *)
(* depth, under their declared names; of the fields with one name the one  *)
(* visited last, in declaration order and depth first, is kept, and a      *)
(* collision is no error.                                                  *)

\* The named fields in the order of the visit, each with its path from the
\* struct; the engine of part_000 passes over the fields tagged ignore.
RECURSIVE Visit(_, _, _, _)
Visit(eng, fs, k, prefix) ==
    IF k > Len(fs) THEN << >>
    ELSE LET here == Append(prefix, Sel(fs[k].name, 0))
             this == IF eng = "part000" /\ fs[k].ignore THEN << >>
                     ELSE IF fs[k].anon THEN Visit(eng, Fields(fs[k].type), 1, here)
                     ELSE << [name |-> fs[k].name, p |-> here, t |-> fs[k].type] >>
         IN this \o Visit(eng, fs, k + 1, prefix)

\* The field kept for a name: the last one visited.
Kept(eng, t, name) ==
    LET v == Visit(eng, Fields(t), 1, << >>)
        last == CHOOSE k \in 1..Len(v) :
                   v[k].name = name /\ \A k2 \in (k + 1)..Len(v) : v[k2].name # name
    IN v[last]

C9_Resolver(rv) ==
    LET v == Visit(engine, Fields(rv.t), 1, << >>)
        fm == FieldMap(engine, rv)
    IN /\ DOMAIN fm = {v[k].name : k \in 1..Len(v)}
       /\ \A name \in DOMAIN fm :
             fm[name] = Rv(rv.a, rv.p \o Kept(engine, rv.t, name).p,
                           Kept(engine, rv.t, name).t)

\* Every field mapped at a struct node is the kept field of its name on
\* both sides.
C9_NodeFields(i) ==
    \A j \in Children(i) :
       /\ L[j].p = L[i].p \o Kept(engine, L[i].to, ChildName(j)).p
       /\ L[j].to = Kept(engine, L[i].to, ChildName(j)).t
       /\ L[j].from = Kept(engine, L[i].from, ChildName(j)).t

\* C9: the field map holds the fields of the struct and of its embedded
\* structs by name, the last one visited for each name, and the mapping
\* follows it.
C9_EmbeddingTransparent ==
    /\ (Done /\ Kind(call.to) = "struct") => C9_Resolver(ToRv)
    /\ (Done /\ Kind(call.from) = "struct") => C9_Resolver(FromRv)
    /\ Done => \A i \in StructNodes : C9_NodeFields(i)
    /\ (PlainWalk /\ call.to = "NameAndLink" /\ call.from = "ProductRef") =>
          /\ res.heap[1].Name = call.heap[2].Product.Name
          /\ res.heap[1].Link = call.heap[2].Link
    /\ (PlainWalk /\ call.to = "NameAndLink" /\ call.from = "Shadow") =>
          /\ res.heap[1].Name = call.heap[2].Product.Name
          /\ res.heap[1].Link = call.heap[1].Link

\* C9, the case reached: two source fields had the name Name, with
\* different values, and the destination got the value of the embedded one,
\* visited last.
C9_Witness ==
    /\ PlainWalk /\ call.to = "NameAndLink" /\ call.from = "Shadow"
    /\ call.heap[2].Name # call.heap[2].Product.Name
    /\ res.heap[1].Name = call.heap[2].Product.Name

----------------------------------------------------------------------------
(* C10: sequence length preservation.  A sequence of length N mapped onto  *)
(* a sequence leaves a destination of length N, whatever the destination   *)
(* held before; when the call succeeds the element at each position is     *)
(* what mapping the source element of that position alone yields.          *)

\* The calls that map a sequence onto a sequence at the top node.
SliceCall == Done /\ Len(L) >= 2 /\ L[2].ev = "slice"

\* The destination element that mapping the source element x alone onto a
\* fresh element yields, with the mapper and the iteration order of the call.
Alone(x) ==
    LET h == <<ZeroValue(Elem(call.to)), x, PoolProduct, PoolDTO>>
        r == mapValue(m, Rv(1, << >>, Elem(call.to)), Rv(2, << >>, Elem(call.from)),
                      [heap |-> h, log |-> << >>, ord |-> call.ord, eng |-> engine], 0)
    IN r.st.heap[1]

\* C10: the destination of a sequence call has the length of the source,
\* and on success each element is the mapping of the source element.
C10_SliceLength ==
    SliceCall =>
       /\ Len(res.heap[1]) = Len(call.heap[2])
       /\ res.err = NoErr =>
             \A i \in 1..Len(call.heap[2]) : res.heap[1][i] = Alone(call.heap[2][i])

\* C10, the case reached: the destination was longer than a source of the
\* largest length drawn, and the call succeeded on elements that differ.
C10_Witness ==
    /\ SliceCall /\ res.err = NoErr
    /\ Len(call.heap[2]) = MaxLen
    /\ Len(call.heap[1]) > MaxLen
    /\ Len(res.heap[1]) = MaxLen
    /\ res.heap[1][1] # res.heap[1][MaxLen]

----------------------------------------------------------------------------
(* C11: map cardinality preservation.                                      *)

\* The outcome of mapping the value x of type fromT alone onto a fresh slot
\* of type toT, with the mapper and the iteration order of the call.
MappedAlone(toT, fromT, x) ==
    LET h == <<ZeroValue(toT), x, PoolProduct, PoolDTO>>
        r == mapValue(m, Rv(1, << >>, toT), Rv(2, << >>, fromT),
                      [heap |-> h, log |-> << >>, ord |-> call.ord, eng |-> engine], 0)
    IN [val |-> r.st.heap[1], err |-> r.err]

\* The calls the Map->Map rule decides, and those the value projection
\* decides (no flatten attempt follows it).
MapCall == Done /\ Len(L) >= 2 /\ L[2].ev = "map"
ProjectionCall ==
    /\ Done /\ Len(L) >= 2 /\ L[2].ev = "mapToSlice"
    /\ \A k \in 1..Len(L) : L[k].ev # "flatten"

MappedKey(k) == MappedAlone(Key(call.to), Key(call.from), k).val
MappedElem(x) == MappedAlone(Elem(call.to), Elem(call.from), x).val

\* No two keys of the source map are mapped to one destination key.
KeysApart(src) ==
    \A k1, k2 \in DOMAIN src : k1 # k2 => MappedKey(k1) # MappedKey(k2)

----------------------------------------------------------------------------
(* C12: the flatten law.                                                   *)

\* The calls that map a map of sequences onto a flat sequence.
FlatCall ==
    /\ Done
    /\ Kind(call.to) = "slice" /\ Kind(Elem(call.to)) # "slice"
    /\ Kind(call.from) = "map" /\ Kind(Elem(call.from)) = "slice"

\* The outcome of mapping one element of an inner sequence alone.
FlatElem(x) == MappedAlone(Elem(call.to), Elem(Elem(call.from)), x)

\* The mapped elements of the entries keys[k], keys[k+1], ..., entry after
\* entry, each inner sequence in its own order.
RECURSIVE Flattened(_, _, _)
Flattened(src, keys, k) ==
    IF k > Len(keys) THEN << >>
    ELSE [j \in 1..Len(src[keys[k]]) |-> FlatElem(src[keys[k]][j]).val]
            \o Flattened(src, keys, k + 1)

(* C12: mapping a map of sequences with T elements in all onto a flat      *)
(* sequence succeeds when each element can be mapped, and a call that      *)
(* succeeds leaves a destination of length exactly T: the mapped elements  *)
(* of every inner sequence, each exactly once, entry after entry, in the   *)
(* order of the inner sequence.                                            *)
C12_FlattenLaw ==
    FlatCall =>
       LET src == call.heap[2]
           keys == RangeOrder(DOMAIN src, call.ord)
       IN /\ (\A k \in DOMAIN src : \A j \in 1..Len(src[k]) :
                 FlatElem(src[k][j]).err = NoErr) => res.err = NoErr
          /\ res.err = NoErr =>
                /\ Len(res.heap[1]) = SumLen(src, keys, 1)
                /\ res.heap[1] = Flattened(src, keys, 1)

\* C12, the case reached: a map of the largest size drawn, with more
\* elements than entries and an inner sequence of two elements that differ,
\* was flattened onto a destination that was in use.
C12_Witness ==
    /\ FlatCall /\ res.err = NoErr
    /\ Cardinality(DOMAIN call.heap[2]) = MaxLen
    /\ Len(res.heap[1]) > MaxLen
    /\ call.heap[1] # << >>
    /\ \E k \in DOMAIN call.heap[2] :
          /\ Len(call.heap[2][k]) = 2
          /\ call.heap[2][k][1] # call.heap[2][k][2]
    /\ \E i \in 1..(Len(res.heap[1]) - 1) : res.heap[1][i] # res.heap[1][i + 1]
    /\ \E k \in 1..Len(L) : L[k].ev = "flatten"

----------------------------------------------------------------------------
(* C13: absent optional source.                                            *)

\* The calls whose source is an absent pointer.
NilSourceCall == Done /\ Kind(call.from) = "ptr" /\ call.heap[2] = 0

\* C13 as stated: a call whose source is an absent pointer returns no
\* error and leaves the destination as it was before the call, whatever the
\* destination's type and whatever is registered.
C13_AbsentSourceUntouched ==
    NilSourceCall => res.err = NoErr /\ res.heap[1] = call.heap[1]

----------------------------------------------------------------------------
(* C14: pointer dereference and allocation.                                *)

\* The outcome of mapping the value x of type fromT onto a slot of type toT
\* that holds tv, with the mapper and the iteration order of the call.
MappedOnto(toT, tv, fromT, x) ==
    LET h == <<tv, x, PoolProduct, PoolDTO>>
        r == mapValue(m, Rv(1, << >>, toT), Rv(2, << >>, fromT),
                      [heap |-> h, log |-> << >>, ord |-> call.ord, eng |-> engine], 0)
    IN [val |-> r.st.heap[1], err |-> r.err]

\* The calls the pointer rules decide: no conversion function is registered
\* for the pair of the call, and exactly one side is a pointer.
DerefCall ==
    /\ Done /\ Registered(1) = ""
    /\ Kind(call.from) = "ptr" /\ call.heap[2] # 0 /\ Kind(call.to) # "ptr"
IntoPtrCall ==
    /\ Done /\ Registered(1) = ""
    /\ Kind(call.to) = "ptr" /\ Kind(call.from) # "ptr"

\* The destination and the error of a call that maps a present pointer
\* onto a value are those of mapping the pointee onto that value.
C14_DerefIsPointee ==
    DerefCall =>
       LET r == MappedOnto(call.to, call.heap[1], Elem(call.from),
                           call.heap[call.heap[2]])
       IN res.heap[1] = r.val /\ res.err = r.err

\* A value mapped onto an absent pointer is mapped into a fresh zero
\* pointee the pointer then refers to; a present pointer is kept and its
\* pointee is mapped in place.
C14_IntoPointee ==
    IntoPtrCall =>
       LET a == res.heap[1]
           old == call.heap[1]
           r == MappedOnto(Elem(call.to),
                           IF old = 0 THEN ZeroValue(Elem(call.to)) ELSE call.heap[old],
                           call.from, call.heap[2])
       IN /\ a # 0
          /\ old = 0 => a > Len(call.heap)
          /\ old # 0 => a = old
          /\ res.heap[a] = r.val /\ res.err = r.err

\* C14 as stated: a present pointer mapped onto a value gives what mapping
\* its pointee gives; a value mapped onto an absent pointer allocates a
\* zero pointee and maps into it; a present destination pointer is kept
\* and its pointee mapped in place.
C14_PointerRules == C14_DerefIsPointee /\ C14_IntoPointee

----------------------------------------------------------------------------
(* C15: the Mapper is not modified by mapping, and concurrent calls on one *)
(* Mapper behave as if each ran alone.                                     *)

\* What the call of caller g yields when it runs alone, from start to end,
\* on the Mapper as it was when the call started.
RunAlone(g) ==
    mapValue(runs[g].m0, Rv(1, << >>, runs[g].to), Rv(2, << >>, runs[g].from),
             runs[g].st0, 0)

----------------------------------------------------------------------------
(* C16: the fallback from value projection to flattening.                  *)

\* The calls whose destination is a sequence and whose source is a map.
MapOntoSliceCall == Done /\ Kind(call.to) = "slice" /\ Kind(call.from) = "map"

\* The flatten attempts of the call's top node.
FlattenEvents == {k \in Own(1) : L[k].ev = "flatten"}

\* The error with which the transformer that ran between the events a and b
\* of the top node returned: that of the last value it mapped.
ReturnedBetween(a, b) ==
    LET js == {j \in (a + 1)..(b - 1) : L[j].ev = "exit" /\ L[j].d = L[1].d + 1}
    IN IF js = {} THEN NoErr
       ELSE L[CHOOSE j \in js : \A k \in js : k <= j].err

\* The error of the projection attempt and the error of the flatten attempt.
ProjectionErr ==
    ReturnedBetween(2, IF FlattenEvents = {} THEN ExitOf(1)
                       ELSE CHOOSE k \in FlattenEvents : TRUE)
FlattenErr == ReturnedBetween(CHOOSE k \in FlattenEvents : TRUE, ExitOf(1))

(* C16: a map mapped onto a sequence is first projected by value.  The     *)
(* flatten attempt is made when, and only when, the projection failed with *)
(* a no-valid-mapping error and the values of the map are sequences.  When *)
(* the flatten attempt succeeds the call succeeds with the flattened       *)
(* destination; when it fails the call returns the error of the            *)
(* projection, not that of the flatten attempt; without a flatten attempt  *)
(* the call returns what the projection returned.                          *)
C16_FlattenFallback ==
    MapOntoSliceCall =>
       /\ L[2].ev = "mapToSlice" /\ ExitOf(1) = Len(L)
       /\ Cardinality(FlattenEvents) <= 1
       /\ FlattenEvents # {} <=>
             (ProjectionErr.kind = "NoValidMapping" /\ Kind(Elem(call.from)) = "slice")
       /\ FlattenEvents = {} => res.err = ProjectionErr
       /\ FlattenEvents # {} =>
             IF FlattenErr = NoErr
             THEN /\ res.err = NoErr
                  /\ Len(res.heap[1]) =
                        SumLen(call.heap[2], RangeOrder(DOMAIN call.heap[2], call.ord), 1)
             ELSE res.err = ProjectionErr

\* C16, the case reached: the projection failed for want of a mapping, the
\* flatten attempt failed with another error, a function's, and the call
\* returned the error of the projection.
C16_Witness ==
    /\ MapOntoSliceCall
    /\ FlattenEvents # {}
    /\ FlattenErr.kind = "user"
    /\ ProjectionErr.kind = "NoValidMapping"
    /\ res.err = ProjectionErr

----------------------------------------------------------------------------
(* C17: the registries after a sequence of registration calls.             *)

\* The positions of the history at which a conversion function was
\* registered for the pair (in, out), and those at which an inspection
\* function was registered for the key (to, recv).
ConvCalls(in, out) ==
    {k \in 1..Len(regs) : regs[k].conv /\ regs[k].f.in = in /\ regs[k].f.out = out}
InspectCalls(to, recv) ==
    {k \in 1..Len(regs) : ~regs[k].conv /\ regs[k].f.to = to /\ regs[k].f.recv = recv}

\* The functions registered at the positions S, in the order of the calls.
RECURSIVE InOrder(_)
InOrder(S) ==
    IF S = {} THEN << >>
    ELSE LET k == CHOOSE x \in S : \A y \in S : y <= x
         IN Append(InOrder(S \ {k}), regs[k].f.id)

\* What the tables hold for a pair and for a key, nothing being "" and << >>.
ConvEntry(in, out) == ConvFuncFor(m, out, in)
InspectEntry(to, recv) ==
    IF to \in DOMAIN m.postFunc /\ recv \in DOMAIN m.postFunc[to]
    THEN m.postFunc[to][recv] ELSE << >>

(* C17: after any sequence of registration calls the conversion table      *)
(* holds for each pair of types the function of the last call made for     *)
(* that pair and nothing for a pair without a call; the inspection table   *)
(* holds for each key the functions of all the calls made for that key, in *)
(* the order of the calls; so that a call changes the entry of its own     *)
(* pair or key only; and HasCustomFuncs is true exactly when a call was    *)
(* made.                                                                   *)
C17_RegistryState ==
    /\ \A in \in TypeNames, out \in TypeNames :
          LET S == ConvCalls(in, out)
          IN ConvEntry(in, out) =
                IF S = {} THEN ""
                ELSE regs[CHOOSE k \in S : \A j \in S : j <= k].f.id
    /\ \A to \in TypeNames, recv \in TypeNames :
          InspectEntry(to, recv) = InOrder(InspectCalls(to, recv))
    /\ HasCustomFuncs(m) <=> Len(regs) > 0

\* C17, the case reached: a pair got a second conversion function, a
\* call for another pair or key was made in between, and the table holds
\* the second function.
C17_Witness ==
    \E in \in TypeNames, out \in TypeNames :
       \E k1, k2 \in ConvCalls(in, out) :
          /\ k2 > k1 + 1
          /\ regs[k1].f.id # regs[k2].f.id
          /\ ConvEntry(in, out) = regs[k2].f.id

----------------------------------------------------------------------------
(* C18: termination.                                                       *)

\* The source of the call holds a pointer to itself.
CyclicSource == Done /\ Kind(call.from) = "struct" /\ call.heap[2].Next = 2

\* C18 as stated: every Map call returns, the recursion never exhausts the
\* stack, also when the pointers of the source form a cycle, whatever is
\* registered and whether or not the two types are the same.
C18_Terminates ==
    Done => /\ res.err # StackOverflow
            /\ \A k \in 1..Len(L) : L[k].ev # "overflow"

----------------------------------------------------------------------------
(* C19: the destination after a call that failed.                          *)

FailedCall == Done /\ res.err # NoErr

\* The least element of a non-empty set of positions.
First(S) == CHOOSE i \in S : \A j \in S : i <= j

\* The outcome of mapping one element, one key or one value of an entry
\* alone onto a fresh slot.
ElemOutcome(x) == MappedAlone(Elem(call.to), Elem(call.from), x)
KeyOutcome(k) == MappedAlone(Key(call.to), Key(call.from), k)

\* The error of mapping the entry of key k: that of its key, else that of
\* its value.
EntryErr(src, k) ==
    IF KeyOutcome(k).err # NoErr THEN KeyOutcome(k).err ELSE ElemOutcome(src[k]).err

\* A Sequence->Sequence call that failed did so at the first element i
\* whose mapping fails: the destination is a sequence of the source's
\* length, the elements up to i are what their mapping left, inspection
\* included, the elements after i are zero.
C19_SliceOnError ==
    (FailedCall /\ L[2].ev = "slice") =>
       LET src == call.heap[2]
           dst == res.heap[1]
           bad == {j \in 1..Len(src) : ElemOutcome(src[j]).err # NoErr}
       IN /\ bad # {}
          /\ res.err = ElemOutcome(src[First(bad)]).err
          /\ Len(dst) = Len(src)
          /\ \A j \in 1..Len(src) :
                dst[j] = IF j <= First(bad) THEN ElemOutcome(src[j]).val
                         ELSE ZeroValue(Elem(call.to))

\* A Map->Map call that failed did so at the first entry, in the order of
\* the iteration, whose key or value fails: the destination is a new map
\* that holds the entries mapped before that one and nothing else.
C19_MapOnError ==
    (FailedCall /\ L[2].ev = "map") =>
       LET src == call.heap[2]
           dst == res.heap[1]
           keys == RangeOrder(DOMAIN src, call.ord)
           bad == {n \in 1..Len(keys) : EntryErr(src, keys[n]) # NoErr}
       IN /\ bad # {}
          /\ res.err = EntryErr(src, keys[First(bad)])
          /\ DOMAIN dst = {KeyOutcome(keys[n]).val : n \in 1..(First(bad) - 1)}
          /\ \A n \in 1..(First(bad) - 1) :
                dst[KeyOutcome(keys[n]).val] = ElemOutcome(src[keys[n]]).val

\* A struct call that failed did so at the first field, in the order of the
\* iteration, whose mapping fails: the fields up to that one are what their
\* mapping left, the others hold what they held before the call.
C19_StructOnError ==
    (FailedCall /\ L[2].ev = "struct") =>
       LET toF == FieldMap(engine, ToRv)
           fromF == FieldMap(engine, FromRv)
           names == RangeOrder(DOMAIN toF, call.ord)
           outcome(n) == MappedOnto(toF[n].t, Get(call.heap, toF[n]),
                                    fromF[n].t, Get(call.heap, fromF[n]))
           bad == {k \in 1..Len(names) :
                      names[k] \in DOMAIN fromF /\ outcome(names[k]).err # NoErr}
       IN /\ bad # {}
          /\ res.err = outcome(names[First(bad)]).err
          /\ \A k \in 1..Len(names) :
                Get(res.heap, toF[names[k]]) =
                   IF k <= First(bad) /\ names[k] \in DOMAIN fromF
                   THEN outcome(names[k]).val
                   ELSE Get(call.heap, toF[names[k]])

(* C19: Map is not atomic.  After a call that failed at an element, an     *)
(* entry or a field, the destination holds the fresh sequence or map the   *)
(* call allocated, or the struct it was writing into, with everything      *)
(* mapped before the failure in place and inspected, and what comes after  *)
(* it zero (sequence), absent (map) or as before the call (struct); the    *)
(* value the destination held before the call is not put back.             *)
C19_PartialOnError == C19_SliceOnError /\ C19_MapOnError /\ C19_StructOnError

\* C19, the case reached: a sequence call failed at its last element; the
\* destination, longer before the call, has the source's length and holds
\* the first element mapped and inspected.
C19_Witness ==
    /\ FailedCall /\ L[2].ev = "slice"
    /\ Len(call.heap[2]) = MaxLen
    /\ ElemOutcome(call.heap[2][1]).err = NoErr
    /\ Len(call.heap[1]) > MaxLen
    /\ Len(res.heap[1]) = MaxLen
    /\ res.heap[1][1] = ElemOutcome(call.heap[2][1]).val
    /\ res.heap[1][1] # ZeroValue(Elem(call.to))
    /\ \E k \in 1..Len(L) : L[k].ev = "inspect" /\ L[k].err = NoErr

====
